---------------------------- MODULE Spec2Model ----------------------------
(***************************************************************************)
(* A model of the two Excel visualisers of this repository:                *)
(*   "basic"  = src/Excel-visualizer-basic.py.py                            *)
(*   "second" = src/Excel-visualizer.py                                     *)
(* Both are a single window (ExcelVizApp) whose button handlers run one at  *)
(* a time on the GUI thread.  The state is the fields of ExcelVizApp and    *)
(* the contents of its widgets; there is one action per handler outcome.    *)
(*                                                                         *)
(* Text is a sequence of one-character strings; a character outside ASCII   *)
(* is written as its code point ("U+2102").  A table cell, and a           *)
(* column header, is a record [t, v]:                                      *)
(*    [t |-> "num",  v |-> an integer]      a number                       *)
(*    [t |-> "str",  v |-> text]            a string                       *)
(*    [t |-> "null", v |-> 0]               NaN / None / an absent mapping *)
(***************************************************************************)
EXTENDS Integers, Sequences, FiniteSets, TLC

\* ------------------------------------------------------------------ bounds
\* Handler calls per behaviour.
MaxSteps == 3
\* resolve_columns as a pure function: headers and desired names per call.
MaxCols == 3
MaxWant == 2
\* Characters in a label given to _norm on its own.
MaxText == 3

\* ------------------------------------------------------- program constants
LogCapBasic == 60
LogCapSecond == 120
BarTopNumeric == 30
BarTopCategoryBasic == 20
BarTopSecond == 30
PieTopCategoryBasic == 10
PieBins == 5
SumHead == 20

\* ------------------------------------------------------------------- text
Range(s) == {s[i] : i \in 1..Len(s)}

Min2(a, b) == IF a < b THEN a ELSE b
Max2(a, b) == IF a > b THEN a ELSE b

\* The characters of the model, in code point order.  U+2102 (DOUBLE-STRUCK
\* CAPITAL C) is one of the upper-case letters that have no lower-case form:
\* str.lower() returns it as it is.
Chars ==
  <<"\t", " ", "-", "0", "1", "2", "3", "4", "5", "6", "7", "8", "9",
    "A", "B", "C", "D", "E", "F", "G", "H", "I", "J", "K", "L", "M",
    "N", "O", "P", "Q", "R", "S", "T", "U", "V", "W", "X", "Y", "Z", "_",
    "a", "b", "c", "d", "e", "f", "g", "h", "i", "j", "k", "l", "m",
    "n", "o", "p", "q", "r", "s", "t", "u", "v", "w", "x", "y", "z", "U+2102">>

\* ord(c), as the place of c in Chars
OrdOf == [c \in Range(Chars) |-> CHOOSE i \in 1..Len(Chars) : Chars[i] = c]
Ord(c) == OrdOf[c]

UpperFirst == Ord("A")
LowerFirst == Ord("a")
IsUpper(c) == Ord(c) >= UpperFirst /\ Ord(c) < UpperFirst + 26
IsSpace(c) == c \in {" ", "\t"}

\* str.lower(), one character
LowerChar(c) == IF IsUpper(c) THEN Chars[Ord(c) - UpperFirst + LowerFirst] ELSE c

\* str.lower()
Lower(s) == [i \in 1..Len(s) |-> LowerChar(s[i])]

\* str.strip()
RECURSIVE LStrip(_)
LStrip(s) == IF s # <<>> /\ IsSpace(Head(s)) THEN LStrip(Tail(s)) ELSE s

RECURSIVE RStrip(_)
RStrip(s) ==
  IF s # <<>> /\ IsSpace(s[Len(s)]) THEN RStrip(SubSeq(s, 1, Len(s) - 1)) ELSE s

Strip(s) == RStrip(LStrip(s))

\* a in b, for Python strings
IsSubstring(a, b) ==
  \E i \in 0..(Len(b) - Len(a)) : SubSeq(b, i + 1, i + Len(a)) = a

\* Lexicographic order of strings by code point: a < b
RECURSIVE StrLess(_, _)
StrLess(a, b) ==
  IF b = <<>> THEN FALSE
  ELSE IF a = <<>> THEN TRUE
  ELSE IF Head(a) = Head(b) THEN StrLess(Tail(a), Tail(b))
  ELSE Ord(Head(a)) < Ord(Head(b))

\* ------------------------------------------------------------------ cells
Num(n) == [t |-> "num", v |-> n]
Str(s) == [t |-> "str", v |-> s]
Null == [t |-> "null", v |-> 0]
\* Python's None, for a field that holds no object
None == Null

IsNull(c) == c.t = "null"
IsNum(c) == c.t = "num"
IsStr(c) == c.t = "str"

Digit(d) == Chars[Ord("0") + d]

\* str(n) of an integer n >= 0
RECURSIVE IntText(_)
IntText(n) == IF n < 10 THEN <<Digit(n)>> ELSE IntText(n \div 10) \o <<Digit(n % 10)>>

\* str(x) of a header or cell
PyStr(c) ==
  CASE IsStr(c) -> c.v
    [] IsNum(c) -> IF c.v >= 0 THEN IntText(c.v) ELSE <<"-">> \o IntText(-c.v)
    [] OTHER -> <<"n", "a", "n">>

\* Python truthiness of a header or None: "not x" is ~Truthy(x)
Truthy(c) ==
  CASE IsStr(c) -> c.v # <<>>
    [] IsNum(c) -> c.v # 0
    [] OTHER -> FALSE

\* ------------------------------------------------- the column resolver
NormMutKeepsInnerSpace(s) ==
  SelectSeq(Strip(Lower(PyStr(s))), LAMBDA c : c # "_")

\* _norm(s): "".join(str(s).lower().replace("_", "").split())
_norm(s) ==
  SelectSeq(Lower(PyStr(s)), LAMBDA c : c # "_" /\ ~IsSpace(c))

\* The keys of {_norm(c): c for c in columns}, in insertion order: a key keeps
\* the place of its first column.
RECURSIVE NormKeys(_)
NormKeys(columns) ==
  IF columns = <<>> THEN <<>>
  ELSE LET init == SubSeq(columns, 1, Len(columns) - 1)
           k == _norm(columns[Len(columns)])
           ks == NormKeys(init)
       IN IF k \in Range(ks) THEN ks ELSE Append(ks, k)

\* The value of a key of that dict: the last column that normalizes to it.
NormValue(columns, k) ==
  LET last == CHOOSE i \in 1..Len(columns) :
                /\ _norm(columns[i]) = k
                /\ \A j \in (i + 1)..Len(columns) : _norm(columns[j]) # k
  IN columns[last]

ResolveMutSubstringFirst(columns, w) ==
  LET keys == NormKeys(columns)
      candidates == SelectSeq(keys, LAMBDA k : IsSubstring(w, k) \/ IsSubstring(k, w))
  IN IF candidates # <<>> THEN NormValue(columns, candidates[1]) ELSE None

\* One desired entry w of resolve_columns: out[w].
ResolveOne(columns, w) ==
  LET keys == NormKeys(columns)
      candidates == SelectSeq(keys, LAMBDA k : IsSubstring(w, k) \/ IsSubstring(k, w))
  IN IF w \in Range(keys) THEN NormValue(columns, w)
     ELSE IF candidates # <<>> THEN NormValue(columns, candidates[1])
     ELSE None

ResolveMutDropsAbsent(columns, want) ==
  [w \in {x \in Range(want) : ~IsNull(ResolveOne(columns, x))} |-> ResolveOne(columns, w)]

\* resolve_columns(df, want): the dict {w: real column or None}, keyed by the
\* entries of want as they were passed.
resolve_columns(columns, want) ==
  [w \in Range(want) |-> ResolveOne(columns, w)]

\* ------------------------------------------------------------ the table
\* A DataFrame: [held, columns, rows]; rows[r][c] is the cell of row r in the
\* column whose header is columns[c].  held = FALSE is "self.df is None".
NoDf == [held |-> FALSE, columns |-> <<>>, rows |-> <<>>]
Frame(columns, rows) == [held |-> TRUE, columns |-> columns, rows |-> rows]

\* df[key]: the place of the column whose header is key, 0 for a KeyError.
ColIndex(d, key) ==
  IF \E i \in 1..Len(d.columns) : d.columns[i] = key
  THEN CHOOSE i \in 1..Len(d.columns) : d.columns[i] = key
  ELSE 0

\* The cells of column c, in row order (a Series with the default RangeIndex).
Column(d, c) == [r \in 1..Len(d.rows) |-> d.rows[r][c]]

\* pd.api.types.is_numeric_dtype(series): read_excel gives a column of numbers
\* and blanks a numeric dtype (an all-blank column is float64), a column with
\* any text the object dtype, and a column of a sheet with no data rows the
\* object dtype.
IsNumericDtype(series) ==
  /\ series # <<>>
  /\ \A i \in 1..Len(series) : ~IsStr(series[i])

\* A Series that keeps its row labels: a sequence of [label, value].
Indexed(series) == [i \in 1..Len(series) |-> [label |-> Num(i - 1), value |-> series[i]]]

\* Series.dropna()
DropNa(rows) == SelectSeq(rows, LAMBDA x : ~IsNull(x.value))

\* int(text) for a string of digits, as pd.to_numeric reads it
RECURSIVE DigitsValue(_)
DigitsValue(s) ==
  IF s = <<>> THEN 0
  ELSE 10 * DigitsValue(SubSeq(s, 1, Len(s) - 1)) + (Ord(s[Len(s)]) - Ord("0"))

IsDigits(s) ==
  /\ s # <<>>
  /\ \A i \in 1..Len(s) : Ord(s[i]) >= Ord("0") /\ Ord(s[i]) <= Ord("9")

\* pd.to_numeric(x, errors="coerce") of one cell
ToNumeric(c) ==
  CASE IsNum(c) -> c
    [] IsStr(c) /\ IsDigits(Strip(c.v)) -> Num(DigitsValue(Strip(c.v)))
    [] OTHER -> Null

\* Series.astype(str) of one cell
AsStr(c) == Str(PyStr(c))

\* Order of group keys and of text: numbers, then strings, NaN last.
CellLess(a, b) ==
  CASE IsNull(a) -> FALSE
    [] IsNull(b) -> TRUE
    [] IsNum(a) /\ IsNum(b) -> a.v < b.v
    [] IsNum(a) -> TRUE
    [] IsNum(b) -> FALSE
    [] OTHER -> StrLess(a.v, b.v)

\* The distinct cells of a sequence, each at its first place.
Distinct(s) ==
  LET first == SelectSeq([i \in 1..Len(s) |-> i],
                         LAMBDA i : \A j \in 1..(i - 1) : s[j] # s[i])
  IN [k \in 1..Len(first) |-> s[first[k]]]

\* Ascending sort of distinct cells.
SortKeys(s) ==
  LET n == Len(s)
      place == SubSeq([i \in 1..n |->
                         1 + Cardinality({j \in 1..n : CellLess(s[j], s[i])})], 1, n)
  IN [p \in 1..n |-> s[CHOOSE i \in 1..n : place[i] = p]]

\* a stays ahead of b in a descending sort of values with NaN last
ValueGE(a, b) == IsNull(b) \/ (~IsNull(a) /\ ~CellLess(a, b))

\* sort_values(ascending=False): descending by value, NaN last, equal values
\* in their earlier order.
SortDesc(rows) ==
  LET n == Len(rows)
      Ahead(j, i) ==
        /\ ValueGE(rows[j].value, rows[i].value)
        /\ j < i \/ ~ValueGE(rows[i].value, rows[j].value)
      place == SubSeq([i \in 1..n |->
                         1 + Cardinality({j \in 1..n : j # i /\ Ahead(j, i)})], 1, n)
  IN [p \in 1..n |-> rows[CHOOSE i \in 1..n : place[i] = p]]

\* Series.head(n)
HeadN(rows, n) == SubSeq(rows, 1, Min2(n, Len(rows)))

\* The sum of the numbers among cells.
RECURSIVE SumNums(_)
SumNums(cells) ==
  IF cells = <<>> THEN 0
  ELSE (IF IsNum(Head(cells)) THEN Head(cells).v ELSE 0) + SumNums(Tail(cells))

CountNonNull(cells) == Len(SelectSeq(cells, LAMBDA c : ~IsNull(c)))

\* The cells of values in the rows whose key is k.
GroupCells(keys, values, k) ==
  LET idx == SelectSeq([i \in 1..Len(keys) |-> i], LAMBDA i : keys[i] = k)
  IN [j \in 1..Len(idx) |-> values[idx[j]]]

\* The groups of groupby(key, dropna=False): sorted keys, NaN last.
Groups(keys) == SortKeys(Distinct(keys))

\* groupby(key, dropna=False)[val].sum(min_count=m)
GroupSum(keys, values, m) ==
  LET gs == Groups(keys)
  IN [g \in 1..Len(gs) |->
        LET cells == GroupCells(keys, values, gs[g])
        IN [label |-> gs[g],
            value |-> IF CountNonNull(cells) >= m THEN Num(SumNums(cells)) ELSE Null]]

\* groupby(key, dropna=False)[val].count()
GroupCount(keys, values) ==
  LET gs == Groups(keys)
  IN [g \in 1..Len(gs) |->
        [label |-> gs[g], value |-> Num(CountNonNull(GroupCells(keys, values, gs[g])))]]

\* Series.value_counts(): one row per distinct value, descending by count,
\* values of equal count in order of first appearance.
ValueCounts(cells) ==
  LET ds == Distinct(cells)
  IN SortDesc([g \in 1..Len(ds) |->
        [label |-> ds[g],
         value |-> Num(Len(SelectSeq(cells, LAMBDA c : c = ds[g])))]])

\* Series.nlargest(n): the n largest values, ties in row order.
NLargest(rows, n) == HeadN(SortDesc(DropNa(rows)), n)

\* pd.cut(series, bins=n) over integers, with every edge multiplied by
\* CutScale(n) so that it is an integer: n + 1 edges, right-closed ranges
\* (edges[i], edges[i+1]].  The range of the values is cut in n equal parts and
\* the lowest edge is lowered by 0.1% of the range so that the minimum falls in
\* the first range; when all values are equal the range is widened by 0.1% of
\* the value (by 0.001 around 0) on both sides instead.
CutScale(n) == 1000 * n

Abs(x) == IF x < 0 THEN -x ELSE x

SeqMin(values) == CHOOSE m \in Range(values) : \A x \in Range(values) : m <= x
SeqMax(values) == CHOOSE m \in Range(values) : \A x \in Range(values) : m >= x

CutEdges(values, n) ==
  LET mn == SeqMin(values)
      mx == SeqMax(values)
      lo == IF mn # 0 THEN CutScale(n) * mn - n * Abs(mn) ELSE -n
      hi == IF mx # 0 THEN CutScale(n) * mx + n * Abs(mx) ELSE n
  IN IF mn = mx
     THEN [i \in 1..(n + 1) |-> lo + (i - 1) * ((hi - lo) \div n)]
     ELSE [i \in 1..(n + 1) |->
             IF i = 1 THEN CutScale(n) * mn - n * (mx - mn)
             ELSE CutScale(n) * mn + (i - 1) * 1000 * (mx - mn)]

\* The range a value falls in: the i with edges[i] < v <= edges[i+1].
BinOf(v, edges, n) ==
  CHOOSE i \in 1..(Len(edges) - 1) :
    edges[i] < CutScale(n) * v /\ CutScale(n) * v <= edges[i + 1]

\* pd.cut(series, bins=n).astype(str).value_counts().sort_index(): one row per
\* range that holds a value, with the number of values in it.  (sort_index
\* orders the rows by the text of the range; they are kept in range order.)
CutCounts(values, n) ==
  LET edges == CutEdges(values, n)
      bins == [i \in 1..Len(values) |-> BinOf(values[i], edges, n)]
      all == [b \in 1..n |->
                [label |-> [t |-> "bin", v |-> b],
                 value |-> Num(Cardinality({i \in 1..Len(values) : bins[i] = b}))]]
  IN SelectSeq(all, LAMBDA x : x.value.v > 0)

\* --------------------------------------------------------------- the files
\* The 13 expected headers of open_excel.
ExpectedNames ==
  <<<<"D", "a", "t", "e">>,
    <<"R", "e", "g", "i", "o", "n">>,
    <<"P", "r", "o", "d", "u", "c", "t">>,
    <<"Q", "u", "a", "n", "t", "i", "t", "y">>,
    <<"U", "n", "i", "t", "P", "r", "i", "c", "e">>,
    <<"S", "t", "o", "r", "e", "L", "o", "c", "a", "t", "i", "o", "n">>,
    <<"C", "u", "s", "t", "o", "m", "e", "r", "T", "y", "p", "e">>,
    <<"D", "i", "s", "c", "o", "u", "n", "t">>,
    <<"S", "a", "l", "e", "s", "p", "e", "r", "s", "o", "n">>,
    <<"T", "o", "t", "a", "l", "P", "r", "i", "c", "e">>,
    <<"P", "a", "y", "m", "e", "n", "t", "M", "e", "t", "h", "o", "d">>,
    <<"P", "r", "o", "m", "o", "t", "i", "o", "n">>,
    <<"R", "e", "t", "u", "r", "n", "e", "d">>>>

\* want_keys of open_excel
want_keys == [i \in 1..Len(ExpectedNames) |-> _norm(Str(ExpectedNames[i]))]

\* The normalized key of a logical name, as the handlers look it up.
Key(name) == _norm(Str(name))

N_Region == <<"R", "e", "g", "i", "o", "n">>
N_Product == <<"P", "r", "o", "d", "u", "c", "t">>
N_Quantity == <<"Q", "u", "a", "n", "t", "i", "t", "y">>
N_StoreLocation == <<"S", "t", "o", "r", "e", "L", "o", "c", "a", "t", "i", "o", "n">>
N_CustomerType == <<"C", "u", "s", "t", "o", "m", "e", "r", "T", "y", "p", "e">>
N_Salesperson == <<"S", "a", "l", "e", "s", "p", "e", "r", "s", "o", "n">>
N_TotalPrice == <<"T", "o", "t", "a", "l", "P", "r", "i", "c", "e">>
N_PaymentMethod == <<"P", "a", "y", "m", "e", "n", "t", "M", "e", "t", "h", "o", "d">>
N_Returned == <<"R", "e", "t", "u", "r", "n", "e", "d">>

\* A sheet with every column the handlers use, under headers that differ from
\* the expected ones in case, blanks and underscores; blanks in the data.
SalesFrame ==
  Frame(<<Str(<<"R", "e", "g", "i", "o", "n">>), Str(<<"P", "r", "o", "d", "u", "c", "t">>), Str(<<"Q", "u", "a", "n", "t", "i", "t", "y">>),
          Str(<<"t", "o", "t", "a", "l", "_", "p", "r", "i", "c", "e">>), Str(<<"S", "a", "l", "e", "s", " ", "P", "e", "r", "s", "o", "n">>),
          Str(<<"S", "t", "o", "r", "e", "_", "L", "o", "c", "a", "t", "i", "o", "n">>), Str(<<"R", "e", "t", "u", "r", "n", "e", "d">>)>>,
        <<<<Str(<<"E", "a", "s", "t">>), Str(<<"P", "e", "n">>), Num(5), Num(100), Str(<<"A", "n", "n">>), Str(<<"S", "1">>), Num(1)>>,
          <<Str(<<"W", "e", "s", "t">>), Str(<<"P", "e", "n">>), Num(2), Null, Str(<<"B", "o", "b">>), Str(<<"S", "2">>), Null>>,
          <<Str(<<"E", "a", "s", "t">>), Str(<<"I", "n", "k">>), Num(10), Num(50), Str(<<"A", "n", "n">>), Str(<<"S", "1">>), Num(2)>>,
          <<Str(<<"W", "e", "s", "t">>), Str(<<"I", "n", "k">>), Null, Null, Str(<<"B", "o", "b">>), Null, Num(0)>>>>)

\* A sheet that lacks most expected columns.
PartialFrame ==
  Frame(<<Str(<<"R", "e", "g", "i", "o", "n">>), Str(<<"P", "r", "o", "d", "u", "c", "t">>)>>,
        <<<<Str(<<"E", "a", "s", "t">>), Str(<<"P", "e", "n">>)>>,
          <<Str(<<"W", "e", "s", "t">>), Str(<<"I", "n", "k">>)>>>>)

\* A sheet with a header row and no data rows.
EmptyFrame ==
  Frame(<<Str(<<"S", "a", "l", "e", "s", "p", "e", "r", "s", "o", "n">>), Str(<<"T", "o", "t", "a", "l", "P", "r", "i", "c", "e">>), Str(<<"S", "t", "o", "r", "e", "L", "o", "c", "a", "t", "i", "o", "n">>),
          Str(<<"R", "e", "t", "u", "r", "n", "e", "d">>), Str(<<"R", "e", "g", "i", "o", "n">>), Str(<<"Q", "u", "a", "n", "t", "i", "t", "y">>)>>,
        <<>>)

\* A sheet whose TotalPrice cells are all blank, whose returns are text and
\* whose quantities are all equal.
BlankFrame ==
  Frame(<<Str(<<"S", "a", "l", "e", "s", "p", "e", "r", "s", "o", "n">>), Str(<<"T", "o", "t", "a", "l", "P", "r", "i", "c", "e">>), Str(<<"S", "t", "o", "r", "e", " ", "L", "o", "c", "a", "t", "i", "o", "n">>),
          Str(<<"r", "e", "t", "u", "r", "n", "e", "d", "_", "f", "l", "a", "g">>), Str(<<"Q", "u", "a", "n", "t", "i", "t", "y">>)>>,
        <<<<Str(<<"A", "n", "n">>), Null, Str(<<"S", "1">>), Str(<<"Y", "e", "s">>), Num(7)>>,
          <<Str(<<"B", "o", "b">>), Null, Str(<<"S", "2">>), Str(<<"N", "o">>), Num(7)>>>>)

\* A sheet with more rows, regions and products than any chart shows: row i has
\* its own region, one of BarTopCategoryBasic + 1 products, a quantity that
\* differs from every other row's, and a total price given as text.
WideRows == BarTopNumeric + 2

WideFrame ==
  Frame(<<Str(<<"R", "e", "g", "i", "o", "n">>), Str(<<"P", "r", "o", "d", "u", "c", "t">>), Str(<<"Q", "u", "a", "n", "t", "i", "t", "y">>), Str(<<"T", "o", "t", "a", "l", "P", "r", "i", "c", "e">>)>>,
        [i \in 1..WideRows |->
           <<Str(<<"R">> \o IntText(i)),
             Str(<<"P">> \o IntText(i % (BarTopCategoryBasic + 1))),
             Num((i * 7) % (WideRows + 5)),
             Str(<<"n", "a">>)>>])

\* The files the open dialog can return: a path and what read_excel makes of it.
Files ==
  <<[path |-> "sales.xlsx", frame |-> SalesFrame],
    [path |-> "partial.xlsx", frame |-> PartialFrame],
    [path |-> "empty.xlsx", frame |-> EmptyFrame],
    [path |-> "blank.xlsx", frame |-> BlankFrame],
    [path |-> "wide.xlsx", frame |-> WideFrame]>>

\* Paths read_excel raises on.
BadPaths == {"notes.xls"}

NoPath == "None"

\* ------------------------------------------------------------------ state
VARIABLES
  variant,      \* "basic" or "second": which of the two programs runs
  df,           \* self.df
  loaded_path,  \* self.loaded_path
  colmap,       \* self.colmap (second)
  btn_preview,  \* self.btn_preview_cols.isEnabled() (second)
  col_box,      \* the items of self.col_box (basic)
  pie_col,      \* the items of self.pie_col (second)
  line_col,     \* the items of self.line_col (second)
  preview,      \* the lines of self.preview, the text log
  dialog,       \* the message box the last handler call showed
  chart,        \* the figure the last handler call showed
  result,       \* the aggregate the last handler call computed
  raised,       \* the exception the last handler call let escape, "" for none
  last,         \* the last handler call and its inputs
  appended,     \* every line ever passed to _log, in order
  cleared,      \* how many of them had been appended at the last preview.clear()
  steps,        \* handler calls so far
  rc            \* a call of resolve_columns or _norm on its own: inputs and result

vars ==
  <<variant, df, loaded_path, colmap, btn_preview, col_box, pie_col, line_col,
    preview, dialog, chart, result, raised, last, appended, cleared, steps, rc>>

\* What the handlers other than open_excel never assign.
data == <<variant, df, loaded_path, colmap, btn_preview, col_box, pie_col, line_col>>

Variants == {"basic", "second"}

EmptyMap == [w \in {} |-> None]

NoDialog == [icon |-> "none", title |-> ""]
Box(icon, title) == [icon |-> icon, title |-> title]

NoChart == [kind |-> "none", data |-> <<>>, edges |-> <<>>]
Figure(kind, rows) == [kind |-> kind, data |-> rows, edges |-> <<>>]

NoResult == [kind |-> "none", data |-> <<>>]

\* A log line: the text of the message with its formatted values apart.
Line(fmt, args) == [fmt |-> fmt, args |-> args, e |-> ""]
\* A log line that formats the exception e.
ErrLine(fmt, e) == [fmt |-> fmt, args |-> <<>>, e |-> e]

\* A handler call: the handler, its two chosen options (texts of the program),
\* the chosen bar pair (its place in allowed_pairs, 0 for none) and the text of
\* the combo box it reads.
NoCall == [act |-> "none", a |-> "", b |-> "", pair |-> 0, sel |-> <<>>]
Call(act, a, b, pair, sel) == [act |-> act, a |-> a, b |-> b, pair |-> pair, sel |-> sel]

RcIdle == [columns |-> <<>>, want |-> <<>>, out |-> EmptyMap, done |-> FALSE]

\* The cap of self.preview in _log.
LogCap(v) == IF v = "basic" THEN LogCapBasic ELSE LogCapSecond

LogMutEvictsNewest(lines, msg, cap) ==
  IF Len(lines) + 1 > cap THEN lines ELSE Append(lines, msg)

\* _log(msg): addItem, then takeItem(0) when the count is over the cap.
LogOne(lines, msg, cap) ==
  LET added == Append(lines, msg)
  IN IF Len(added) > cap THEN Tail(added) ELSE added

\* _log called for each of msgs in turn (the first half of msgs, then the rest).
RECURSIVE LogAll(_, _, _)
LogAll(lines, msgs, cap) ==
  IF msgs = <<>> THEN lines
  ELSE IF Len(msgs) = 1 THEN LogOne(lines, msgs[1], cap)
  ELSE LET h == Len(msgs) \div 2
           first == LogAll(lines, SubSeq(msgs, 1, h), cap)
       IN IF Len(first) <= cap THEN LogAll(first, SubSeq(msgs, h + 1, Len(msgs)), cap)
          ELSE first

\* The lines __init__ logs.
InitLines(v) ==
  IF v = "basic"
  THEN <<Line("Please select an Excel file.", <<>>),
         Line("After selecting a file, choose a column (or row) to visualize.", <<>>),
         Line("Then choose a chart type and click 'Preview Visualization'.", <<>>)>>
  ELSE <<Line("Select an Excel file to begin.", <<>>)>>

\* __init__
Init ==
  /\ variant \in Variants
  /\ df = NoDf
  /\ loaded_path = NoPath
  /\ colmap = EmptyMap
  /\ btn_preview = FALSE
  /\ col_box = <<>>
  /\ pie_col = <<>>
  /\ line_col = <<>>
  /\ preview = LogAll(<<>>, InitLines(variant), LogCap(variant))
  /\ dialog = NoDialog
  /\ chart = NoChart
  /\ result = NoResult
  /\ raised = ""
  /\ last = NoCall
  /\ appended = InitLines(variant)
  /\ cleared = 0
  /\ steps = 0
  /\ rc = RcIdle

\* What a handler call that is not a successful open leaves behind: the box it
\* showed, the lines it logged, the figure and aggregate it made, the exception
\* it let escape.
Outcome(box, lines, fig, res, exc) ==
  [dialog |-> box, lines |-> lines, chart |-> fig, result |-> res, raised |-> exc]

Quiet == Outcome(NoDialog, <<>>, NoChart, NoResult, "")
Show(box) == Outcome(box, <<>>, NoChart, NoResult, "")
ShowAndLog(box, lines) == Outcome(box, lines, NoChart, NoResult, "")
Escapes(exc) == Outcome(NoDialog, <<>>, NoChart, NoResult, exc)

Finish(call, out) ==
  /\ dialog' = out.dialog
  /\ chart' = out.chart
  /\ result' = out.result
  /\ raised' = out.raised
  /\ preview' = LogAll(preview, out.lines, LogCap(variant))
  /\ appended' = appended \o out.lines
  /\ last' = call
  /\ steps' = steps + 1
  /\ UNCHANGED <<cleared, rc>>

\* ---------------------------------------------------------------- open_excel
\* The dialog is cancelled: path is "".
OpenCancel ==
  /\ steps < MaxSteps
  /\ Finish(Call("open_excel", "cancel", "", 0, <<>>), Quiet)
  /\ UNCHANGED data

ReadFailedMutLogs(v) ==
  ShowAndLog(Box("critical", "Read failed"), <<ErrLine("Read failed: {e}", "Exception")>>)

\* except Exception as e: QMessageBox.critical(...); return
ReadFailed(v) ==
  Show(Box("critical", IF v = "basic" THEN "Failed to read Excel" ELSE "Read failed"))

\* read_excel raises.
OpenFail ==
  /\ steps < MaxSteps
  /\ \E path \in BadPaths :
       Finish(Call("open_excel", "fail", path, 0, <<>>), ReadFailed(variant))
  /\ UNCHANGED data

\* The pie candidates that resolved, in the order of open_excel's list.
PieCandidates == <<N_Region, N_Product, N_StoreLocation, N_CustomerType, N_PaymentMethod>>

MapGet(m, k) == IF k \in DOMAIN m THEN m[k] ELSE None

PieItems(m) ==
  LET reals == [i \in 1..Len(PieCandidates) |-> MapGet(m, Key(PieCandidates[i]))]
      kept == SelectSeq(reals, LAMBDA c : Truthy(c))
  IN [i \in 1..Len(kept) |-> PyStr(kept[i])]

\* The numeric columns, as text.
LineItems(d) ==
  LET idx == SelectSeq([i \in 1..Len(d.columns) |-> i],
                       LAMBDA i : IsNumericDtype(Column(d, i)))
  IN [j \in 1..Len(idx) |-> PyStr(d.columns[idx[j]])]

OpenMutKeepsColmap(d) == colmap

\* self.colmap = resolve_columns(df, want_keys)
OpenColmap(d) == resolve_columns(d.columns, want_keys)

OpenOkSecond(f) ==
  /\ df' = f.frame
  /\ loaded_path' = f.path
  /\ btn_preview' = TRUE
  /\ colmap' = OpenColmap(f.frame)
  /\ pie_col' = PieItems(colmap')
  /\ line_col' = LineItems(f.frame)
  /\ preview' = LogOne(preview,
                       Line("File loaded. Choose a chart type and then the required column(s).", <<>>),
                       LogCap(variant))
  /\ appended' = Append(appended,
                        Line("File loaded. Choose a chart type and then the required column(s).", <<>>))
  /\ UNCHANGED <<col_box, cleared>>

FileLoadedLine == Line("File loaded. Choose a chart type and then the required column(s).", <<>>)

LoadedLines ==
  <<Line("File loaded successfully", <<>>),
    Line("Please select a column (or row) to visualize.", <<>>),
    Line("Next, choose a chart type.", <<>>)>>

OpenOkBasic(f) ==
  /\ df' = f.frame
  /\ loaded_path' = f.path
  /\ col_box' = [i \in 1..Len(f.frame.columns) |-> PyStr(f.frame.columns[i])]
  /\ preview' = LogAll(<<>>, LoadedLines, LogCap(variant))
  /\ cleared' = Len(appended)
  /\ appended' = appended \o LoadedLines
  /\ UNCHANGED <<colmap, btn_preview, pie_col, line_col>>

\* read_excel returns a table.
OpenOk ==
  /\ steps < MaxSteps
  /\ \E i \in 1..Len(Files) :
       /\ IF variant = "basic" THEN OpenOkBasic(Files[i]) ELSE OpenOkSecond(Files[i])
       /\ last' = Call("open_excel", "ok", Files[i].path, 0, <<>>)
  /\ dialog' = NoDialog
  /\ chart' = NoChart
  /\ result' = NoResult
  /\ raised' = ""
  /\ steps' = steps + 1
  /\ UNCHANGED <<variant, rc>>

\* ----------------------------------------------------------- preview_columns
PreviewMutSkipsNoData ==
  /\ steps < MaxSteps
  /\ variant = "second"
  /\ Finish(Call("preview_columns", "", "", 0, <<>>),
            IF ~df.held THEN Escapes("AttributeError")
            ELSE Outcome(NoDialog,
                         <<Line("Columns: {cols}",
                                [i \in 1..Len(df.columns) |-> Str(PyStr(df.columns[i]))])>>,
                         NoChart, NoResult, ""))
  /\ UNCHANGED data

PreviewColumns ==
  /\ steps < MaxSteps
  /\ variant = "second"
  /\ Finish(Call("preview_columns", "", "", 0, <<>>),
            IF ~df.held THEN Quiet
            ELSE Outcome(NoDialog,
                         <<Line("Columns: {cols}",
                                [i \in 1..Len(df.columns) |-> Str(PyStr(df.columns[i]))])>>,
                         NoChart, NoResult, ""))
  /\ UNCHANGED data

\* --------------------------------------------------------------- run_metrics
MetricChoices == {"Salesperson", "StoreLocation"}
Modes == {"sum", "max", "min"}

\* str(series): its labels and values, row by row.
SeriesArgs(rows) ==
  [i \in 1..(2 * Len(rows)) |->
     IF i % 2 = 1 THEN rows[(i + 1) \div 2].label ELSE rows[i \div 2].value]

\* g.idxmax() / g.max(): the first row with the largest value, NaN skipped.
ArgMax(g) == SortDesc(DropNa(g))[1]

\* g.idxmin() / g.min(): the first row with the smallest value, NaN skipped.
ArgMin(g) ==
  LET rows == DropNa(g)
      i == CHOOSE i \in 1..Len(rows) :
             /\ \A j \in 1..Len(rows) : ~CellLess(rows[j].value, rows[i].value)
             /\ \A j \in 1..(i - 1) : CellLess(rows[i].value, rows[j].value)
  IN rows[i]

NaNRow == [label |-> Null, value |-> Null]

\* The two headings and the lines of one metric pair.
SumHeading(choice) ==
  IF choice = "Salesperson" THEN "[SUM] TotalPrice by Salesperson:"
  ELSE "[SUM] Returned by StoreLocation:"

MaxFormat(choice) ==
  IF choice = "Salesperson" THEN "[MAX] Salesperson with highest total: {idx} = {max}"
  ELSE "[MAX] StoreLocation with highest returns: {idx} = {max}"

MinFormat(choice) ==
  IF choice = "Salesperson" THEN "[MIN] Salesperson with lowest total: {idx} = {min}"
  ELSE "[MIN] StoreLocation with lowest returns: {idx} = {min}"

\* The part of run_metrics after g is computed.  g.idxmax() and g.idxmin()
\* raise ValueError on an empty series; on a series of NaN only they raise
\* ValueError or return NaN, as the installed pandas has it.
MetricReports(mode, choice, g) ==
  LET res == [kind |-> mode, data |-> g]
      report(row) ==
        Outcome(NoDialog,
                <<Line(IF mode = "max" THEN MaxFormat(choice) ELSE MinFormat(choice),
                       <<row.label, row.value>>)>>,
                NoChart, res, "")
  IN IF mode = "sum"
     THEN {Outcome(NoDialog,
                   <<Line(SumHeading(choice), <<>>),
                     Line("{series}", SeriesArgs(HeadN(SortDesc(g), SumHead)))>>,
                   NoChart, res, "")}
     ELSE IF g = <<>> THEN {Escapes("ValueError")}
     ELSE IF DropNa(g) = <<>> THEN {Escapes("ValueError"), report(NaNRow)}
     ELSE {report(IF mode = "max" THEN ArgMax(g) ELSE ArgMin(g))}

\* self.df.groupby(gkey, dropna=False)[val].sum(min_count=1)
SalesSum(keys, values) == GroupSum(keys, values, 1)

\* series = self.df[ret], made numeric with NaN filled by 0 when it is not, then
\* self.df.assign(_ret=series).groupby(gkey, dropna=False)["_ret"].sum()
ReturnsSum(keys, values) ==
  LET series == IF IsNumericDtype(values) THEN values
                ELSE [i \in 1..Len(values) |->
                        IF IsNull(ToNumeric(values[i])) THEN Num(0) ELSE ToNumeric(values[i])]
  IN GroupSum(keys, series, 0)

\* The keys a metric pair looks up.
MetricGroupName(choice) == IF choice = "Salesperson" THEN N_Salesperson ELSE N_StoreLocation
MetricValueName(choice) == IF choice = "Salesperson" THEN N_TotalPrice ELSE N_Returned

MissingMutChecksGroupOnly(gkey, val) == ~Truthy(gkey)

\* "if not gkey or not val"
Missing(gkey, val) == ~Truthy(gkey) \/ ~Truthy(val)

\* The outcomes of run_metrics(mode) with metric_sel at choice.
MetricOutcomes(mode, choice) ==
  LET gkey == MapGet(colmap, Key(MetricGroupName(choice)))
      val == MapGet(colmap, Key(MetricValueName(choice)))
      keys == Column(df, ColIndex(df, gkey))
      values == Column(df, ColIndex(df, val))
  IN IF ~df.held THEN {Show(Box("information", "No data"))}
     ELSE IF Missing(gkey, val) THEN {Show(Box("warning", "Missing columns"))}
     ELSE IF ColIndex(df, gkey) = 0 \/ ColIndex(df, val) = 0 THEN {Escapes("KeyError")}
     ELSE IF choice = "Salesperson"
     THEN IF \E i \in 1..Len(values) : IsStr(values[i])
          \* pandas adds the cells of an object column with Python's +, which
          \* raises TypeError on text beside numbers.  No file of the model has
          \* a text TotalPrice beside a Salesperson column.
          THEN {Escapes("TypeError")}
          ELSE MetricReports(mode, choice, SalesSum(keys, values))
     ELSE MetricReports(mode, choice, ReturnsSum(keys, values))

RunMetrics ==
  /\ steps < MaxSteps
  /\ variant = "second"
  /\ \E mode \in Modes, choice \in MetricChoices :
       \E out \in MetricOutcomes(mode, choice) :
         Finish(Call("run_metrics", mode, choice, 0, <<>>), out)
  /\ UNCHANGED data

\* ---------------------------------------------------------------- draw_chart
ChartTypes ==
  {"Pie Chart (percent)", "Bar Chart (vertical)", "Bar Chart (horizontal)",
   "Line Chart (single numeric column)"}

IsBar(t) == t \in {"Bar Chart (vertical)", "Bar Chart (horizontal)"}

\* self.allowed_pairs
AllowedPairs ==
  <<<<N_Region, N_Quantity>>, <<N_Region, N_TotalPrice>>,
    <<N_Product, N_Quantity>>, <<N_Product, N_TotalPrice>>>>

\* currentText() of a combo box that is not editable: one of its items, "" when
\* it has none.
Selections(items) == IF items = <<>> THEN {<<>>} ELSE Range(items)

PlotError(exc) ==
  Outcome(Box("critical", "Plot Error"), <<ErrLine("Plot error: {e}", exc)>>,
          NoChart, NoResult, "")

\* The labels of a series as text: index.astype(str)
TextLabels(rows) ==
  [i \in 1..Len(rows) |-> [label |-> AsStr(rows[i].label), value |-> rows[i].value]]

BarTopMutKeepsAll(agg) == SortDesc(agg)

\* agg.sort_values(ascending=False).head(30)
BarTop(agg) == HeadN(SortDesc(agg), BarTopSecond)

\* The "Pie" branch.
PieOutcome(sel) ==
  LET cat_col == Strip(sel)
      c == ColIndex(df, Str(cat_col))
      cells == [i \in 1..Len(df.rows) |-> AsStr(Column(df, c)[i])]
  IN IF cat_col = <<>> THEN Show(Box("information", "Select column"))
     ELSE IF c = 0 THEN PlotError("KeyError")
     ELSE Outcome(NoDialog, <<Line("Pie chart shown.", <<>>)>>,
                  Figure("pie", ValueCounts(cells)), NoResult, "")

\* The "Bar" branch, for the pair at place p of allowed_pairs.
BarOutcome(t, p) ==
  LET x_key == MapGet(colmap, Key(AllowedPairs[p][1]))
      y_key == MapGet(colmap, Key(AllowedPairs[p][2]))
      keys == Column(df, ColIndex(df, x_key))
      y_series == Column(df, ColIndex(df, y_key))
      agg == IF IsNumericDtype(y_series) THEN GroupSum(keys, y_series, 1)
             ELSE GroupCount(keys, y_series)
  IN IF Missing(x_key, y_key) THEN Show(Box("warning", "Missing columns"))
     ELSE IF ColIndex(df, x_key) = 0 \/ ColIndex(df, y_key) = 0 THEN PlotError("KeyError")
     ELSE Outcome(NoDialog, <<Line("Bar chart shown.", <<>>)>>,
                  Figure(IF t = "Bar Chart (horizontal)" THEN "barh" ELSE "bar",
                         TextLabels(BarTop(agg))),
                  NoResult, "")

\* pd.to_numeric(series, errors="coerce").dropna(), row labels kept
NumericRows(cells) ==
  DropNa(Indexed([i \in 1..Len(cells) |-> ToNumeric(cells[i])]))

\* The "Line" branch.
LineOutcome(sel) ==
  LET col == Strip(sel)
      c == ColIndex(df, Str(col))
  IN IF col = <<>> THEN Show(Box("information", "Select column"))
     ELSE IF c = 0 THEN PlotError("KeyError")
     ELSE Outcome(NoDialog, <<Line("Line chart shown.", <<>>)>>,
                  Figure("line", NumericRows(Column(df, c))), NoResult, "")

\* draw_chart with chart_type at t, bar_pair at place p and the pie or line
\* combo box at sel.
DrawOutcome(t, p, sel) ==
  IF ~df.held THEN Show(Box("information", "No data"))
  ELSE IF t = "Pie Chart (percent)" THEN PieOutcome(sel)
  ELSE IF IsBar(t) THEN BarOutcome(t, p)
  ELSE LineOutcome(sel)

DrawChart ==
  /\ steps < MaxSteps
  /\ variant = "second"
  /\ \E t \in ChartTypes :
       \E p \in IF IsBar(t) THEN 1..Len(AllowedPairs) ELSE {1} :
         \E sel \in IF IsBar(t) THEN {<<>>}
                    ELSE IF t = "Pie Chart (percent)" THEN Selections(pie_col)
                    ELSE Selections(line_col) :
           Finish(Call("draw_chart", t, "", IF IsBar(t) THEN p ELSE 0, sel),
                  DrawOutcome(t, p, sel))
  /\ UNCHANGED data

\* ------------------------------------------------------------------- run_viz
BasicCharts ==
  {"Find Max", "Find Min", "Histogram (vertical bars)", "Bar Chart (horizontal)",
   "Line Chart", "Pie Chart"}

\* series.max() / series.min() of the non-null cells: NaN for none, TypeError
\* (reported as "raises") for text beside numbers.
Comparable(cells) ==
  (\A i \in 1..Len(cells) : IsNum(cells[i])) \/ (\A i \in 1..Len(cells) : IsStr(cells[i]))

CellsMax(cells) ==
  IF cells = <<>> THEN Null
  ELSE CHOOSE m \in Range(cells) : \A x \in Range(cells) : ~CellLess(m, x)

CellsMin(cells) ==
  IF cells = <<>> THEN Null
  ELSE CHOOSE m \in Range(cells) : \A x \in Range(cells) : ~CellLess(x, m)

Values(rows) == [i \in 1..Len(rows) |-> rows[i].value]

\* series.astype(str).value_counts()
TextCounts(rows) == ValueCounts([i \in 1..Len(rows) |-> AsStr(rows[i].value)])

NotNumericNote ==
  Line("'{col}' is not numeric. Converting to numeric where possible.", <<>>)

\* pd.to_numeric(series, errors="coerce").dropna() of a series
Coerced(rows) ==
  DropNa([i \in 1..Len(rows) |-> [label |-> rows[i].label, value |-> ToNumeric(rows[i].value)]])

PieCutMutKeepsEmpty(values, n) ==
  [b \in 1..n |->
     [label |-> [t |-> "bin", v |-> b],
      value |-> Num(Cardinality({i \in 1..Len(values) :
                                    BinOf(values[i], CutEdges(values, n), n) = b}))]]

\* pd.cut(series, bins=5).astype(str) and its value_counts().sort_index()
PieCut(values, n) == CutCounts(values, n)

\* The rows of the horizontal bar chart, top bar first: series.nlargest(30)
\* drawn on an inverted axis, or the 20 most frequent values drawn bottom up
\* from the reversed list.
BasicBar(rows, numeric) ==
  IF numeric THEN TextLabels(NLargest(rows, BarTopNumeric))
  ELSE HeadN(TextCounts(rows), BarTopCategoryBasic)

\* run_viz from "series = self.df[col].dropna()" on, for column c.
VizOutcome(chartName, c) ==
  LET series == DropNa(Indexed(Column(df, c)))
      is_numeric == IsNumericDtype(Column(df, c))
      note == IF is_numeric THEN <<>> ELSE <<NotNumericNote>>
      nums == IF is_numeric THEN series ELSE Coerced(series)
      ints == [i \in 1..Len(series) |-> series[i].value.v]
  IN CASE chartName = "Find Max" ->
            IF Comparable(Values(series))
            THEN Outcome(NoDialog, <<Line("[Max] {col} = {max}", <<CellsMax(Values(series))>>)>>,
                         NoChart, [kind |-> "max", data |-> <<>>], "")
            ELSE Outcome(NoDialog, <<Line("[Max] Unable to compute max for '{col}'.", <<>>)>>,
                         NoChart, NoResult, "")
       [] chartName = "Find Min" ->
            IF Comparable(Values(series))
            THEN Outcome(NoDialog, <<Line("[Min] {col} = {min}", <<CellsMin(Values(series))>>)>>,
                         NoChart, [kind |-> "min", data |-> <<>>], "")
            ELSE Outcome(NoDialog, <<Line("[Min] Unable to compute min for '{col}'.", <<>>)>>,
                         NoChart, NoResult, "")
       [] chartName = "Histogram (vertical bars)" ->
            Outcome(NoDialog, note \o <<Line("Histogram shown.", <<>>)>>,
                    Figure("hist", nums), NoResult, "")
       [] chartName = "Bar Chart (horizontal)" ->
            Outcome(NoDialog, <<Line("Horizontal bar chart shown.", <<>>)>>,
                    Figure("barh", BasicBar(series, is_numeric)), NoResult, "")
       [] chartName = "Line Chart" ->
            Outcome(NoDialog, note \o <<Line("Line chart shown.", <<>>)>>,
                    Figure("line", nums), NoResult, "")
       [] OTHER ->
            IF is_numeric
            THEN IF series = <<>> THEN PlotError("ValueError")
                 ELSE Outcome(NoDialog, <<Line("Pie chart shown.", <<>>)>>,
                              [kind |-> "pie", data |-> PieCut(ints, PieBins),
                               edges |-> CutEdges(ints, PieBins)],
                              NoResult, "")
            ELSE Outcome(NoDialog, <<Line("Pie chart shown.", <<>>)>>,
                         Figure("pie", HeadN(TextCounts(series), PieTopCategoryBasic)),
                         NoResult, "")

\* run_viz with col_box at sel and chart_box at chartName.
RunVizOutcome(chartName, sel) ==
  LET col == Strip(sel)
  IN IF ~df.held
     THEN ShowAndLog(Box("information", "No Data"), <<Line("Please select an Excel file.", <<>>)>>)
     ELSE IF col = <<>>
     THEN ShowAndLog(Box("information", "Select Column"),
                     <<Line("Please select a column first.", <<>>)>>)
     ELSE IF Str(col) \notin Range(df.columns) THEN Show(Box("warning", "Invalid Column"))
     ELSE VizOutcome(chartName, ColIndex(df, Str(col)))

RunViz ==
  /\ steps < MaxSteps
  /\ variant = "basic"
  /\ \E chartName \in BasicCharts, sel \in Selections(col_box) :
       Finish(Call("run_viz", chartName, "", 0, sel), RunVizOutcome(chartName, sel))
  /\ UNCHANGED data

\* ------------------------------------------------------------ specification
Next ==
  \/ OpenCancel
  \/ OpenFail
  \/ OpenOk
  \/ PreviewColumns
  \/ RunMetrics
  \/ DrawChart
  \/ RunViz

Spec == Init /\ [][Next]_vars

\* ------------------------------------------- resolve_columns on its own
\* Headers and desired names for calls of resolve_columns outside open_excel.
HeaderVocab ==
  {Str(<<"R", "e", "g", "i", "o", "n">>), Str(<<"R", "e", "g", "i", "o", "n", "a", "l">>), Str(<<"t", "o", "t", "a", "l", "_", "p", "r", "i", "c", "e">>),
   Str(<<"T", "o", "t", "a", "l", " ", "P", "r", "i", "c", "e">>), Str(<<"Q", "t", "y">>), Str(<<"_">>)}

WantVocab ==
  {<<"R", "e", "g", "i", "o", "n">>, <<"T", "o", "t", "a", "l", "P", "r", "i", "c", "e">>,
   <<"r", "e", "g", "i", "o", "n">>, <<"t", "o", "t", "a", "l", "p", "r", "i", "c", "e">>, <<"r", "e", "t", "u", "r", "n", "e", "d">>}

SeqsUpTo(S, n) == UNION {[1..k -> S] : k \in 0..n}

\* read_excel renames a repeated header, so the headers of a table differ.
HeaderLists ==
  {cs \in SeqsUpTo(HeaderVocab, MaxCols) :
     \A i, j \in 1..Len(cs) : i # j => cs[i] # cs[j]}

InitResolve ==
  /\ variant = "second"
  /\ df = NoDf
  /\ loaded_path = NoPath
  /\ colmap = EmptyMap
  /\ btn_preview = FALSE
  /\ col_box = <<>>
  /\ pie_col = <<>>
  /\ line_col = <<>>
  /\ preview = LogAll(<<>>, InitLines(variant), LogCap(variant))
  /\ dialog = NoDialog
  /\ chart = NoChart
  /\ result = NoResult
  /\ raised = ""
  /\ last = NoCall
  /\ appended = InitLines(variant)
  /\ cleared = 0
  /\ steps = 0
  /\ \E cs \in HeaderLists, ws \in SeqsUpTo(WantVocab, MaxWant) :
       rc = [columns |-> cs, want |-> ws, out |-> EmptyMap, done |-> FALSE]

\* out = resolve_columns(df, want)
ResolveCall ==
  /\ ~rc.done
  /\ rc' = [rc EXCEPT !.out = resolve_columns(rc.columns, rc.want), !.done = TRUE]
  /\ UNCHANGED <<variant, df, loaded_path, colmap, btn_preview, col_box, pie_col,
                 line_col, preview, dialog, chart, result, raised, last, appended,
                 cleared, steps>>

SpecResolve == InitResolve /\ [][ResolveCall]_vars

\* ------------------------------------------------------ _norm on its own
\* The labels _norm is given: text of up to MaxText characters with letters
\* of either case, a digit, the underscore and white space in any place, and
\* the headers that are no text (a number, NaN).
NormAlphabet == {"A", "Z", "a", "z", "7", "_", " ", "\t", "U+2102"}

NormInputs ==
  {Str(t) : t \in SeqsUpTo(NormAlphabet, MaxText)} \cup {Num(0), Num(-12), Num(2024), Null}

InitNorm ==
  /\ variant = "second"
  /\ df = NoDf
  /\ loaded_path = NoPath
  /\ colmap = EmptyMap
  /\ btn_preview = FALSE
  /\ col_box = <<>>
  /\ pie_col = <<>>
  /\ line_col = <<>>
  /\ preview = LogAll(<<>>, InitLines(variant), LogCap(variant))
  /\ dialog = NoDialog
  /\ chart = NoChart
  /\ result = NoResult
  /\ raised = ""
  /\ last = NoCall
  /\ appended = InitLines(variant)
  /\ cleared = 0
  /\ steps = 0
  /\ \E s \in NormInputs : rc = [s |-> s, once |-> <<>>, twice |-> <<>>, done |-> FALSE]

\* once = _norm(s); twice = _norm(once)
NormCall ==
  /\ ~rc.done
  /\ rc' = [rc EXCEPT !.once = _norm(rc.s), !.twice = _norm(Str(_norm(rc.s))),
                      !.done = TRUE]
  /\ UNCHANGED <<variant, df, loaded_path, colmap, btn_preview, col_box, pie_col,
                 line_col, preview, dialog, chart, result, raised, last, appended,
                 cleared, steps>>

SpecNorm == InitNorm /\ [][NormCall]_vars

\* ------------------------------------------------- a log that is nearly full
\* The window after sales.xlsx was opened and one and the same line was logged
\* again and again (Preview Columns clicked, or Find Max previewed for the
\* first column) until the log holds n lines.
ColumnsLine(d) ==
  Line("Columns: {cols}", [i \in 1..Len(d.columns) |-> Str(PyStr(d.columns[i]))])

MaxLine(d, c) ==
  Line("[Max] {col} = {max}", <<CellsMax(Values(DropNa(Indexed(Column(d, c)))))>>)

RepeatedLine(v) == IF v = "basic" THEN MaxLine(SalesFrame, 1) ELSE ColumnsLine(SalesFrame)

LoadLines(v) ==
  IF v = "basic" THEN LoadedLines
  ELSE <<Line("File loaded. Choose a chart type and then the required column(s).", <<>>)>>

\* Every line logged up to that point: those of __init__, those of open_excel,
\* then k times the repeated line.
FilledHistory(v, k) == InitLines(v) \o LoadLines(v) \o [i \in 1..k |-> RepeatedLine(v)]

\* The log then: in the basic program open_excel cleared the list first.
FilledLog(v, k) ==
  LogAll(IF v = "basic" THEN <<>> ELSE LogAll(<<>>, InitLines(v), LogCap(v)),
         LoadLines(v) \o [i \in 1..k |-> RepeatedLine(v)], LogCap(v))

\* The numbers of repeated lines that leave the log two lines short of its cap,
\* one line short, and full.
Fills(v) ==
  LET shown == IF v = "basic" THEN Len(LoadedLines) ELSE Len(InitLines(v)) + Len(LoadLines(v))
  IN {LogCap(v) - shown - d : d \in 0..2}

InitLog ==
  /\ variant \in Variants
  /\ df = SalesFrame
  /\ loaded_path = "sales.xlsx"
  /\ colmap = IF variant = "second" THEN OpenColmap(SalesFrame) ELSE EmptyMap
  /\ btn_preview = (variant = "second")
  /\ col_box = IF variant = "basic"
               THEN [i \in 1..Len(SalesFrame.columns) |-> PyStr(SalesFrame.columns[i])]
               ELSE <<>>
  /\ pie_col = IF variant = "second" THEN PieItems(colmap) ELSE <<>>
  /\ line_col = IF variant = "second" THEN LineItems(SalesFrame) ELSE <<>>
  /\ \E k \in Fills(variant) :
       /\ preview = FilledLog(variant, k)
       /\ appended = FilledHistory(variant, k)
       /\ last = IF variant = "basic"
                 THEN Call("run_viz", "Find Max", "", 0, PyStr(SalesFrame.columns[1]))
                 ELSE Call("preview_columns", "", "", 0, <<>>)
  /\ dialog = NoDialog
  /\ chart = NoChart
  /\ result = NoResult
  /\ raised = ""
  /\ cleared = IF variant = "basic" THEN Len(InitLines(variant)) ELSE 0
  /\ steps = Min2(MaxSteps, 1)
  /\ rc = RcIdle

SpecLog == InitLog /\ [][Next]_vars

\* ------------------------------------------ headers as the sheet wrote them
\* A sheet whose headers read_excel returns as they are in the file: one with
\* a leading blank, one that is a number (a year), one with a trailing blank.
HeaderFrame ==
  Frame(<<Str(<<" ", "R", "e", "g", "i", "o", "n">>), Num(2024), Str(<<"Q", "t", "y", " ">>)>>,
        << <<Str(<<"N">>), Num(3), Num(5)>>,
           <<Str(<<"S">>), Num(4), Null>>,
           <<Str(<<"N">>), Num(1), Num(2)>> >>)

\* The window right after open_excel loaded that sheet.
InitHeaders ==
  /\ variant \in Variants
  /\ df = HeaderFrame
  /\ loaded_path = "headers.xlsx"
  /\ colmap = IF variant = "second" THEN OpenColmap(HeaderFrame) ELSE EmptyMap
  /\ btn_preview = (variant = "second")
  /\ col_box = IF variant = "basic"
               THEN [i \in 1..Len(HeaderFrame.columns) |-> PyStr(HeaderFrame.columns[i])]
               ELSE <<>>
  /\ pie_col = IF variant = "second" THEN PieItems(colmap) ELSE <<>>
  /\ line_col = IF variant = "second" THEN LineItems(HeaderFrame) ELSE <<>>
  /\ preview = IF variant = "basic" THEN LoadedLines
               ELSE Append(InitLines(variant), FileLoadedLine)
  /\ appended = IF variant = "basic" THEN InitLines(variant) \o LoadedLines
                ELSE Append(InitLines(variant), FileLoadedLine)
  /\ cleared = IF variant = "basic" THEN Len(InitLines(variant)) ELSE 0
  /\ last = Call("open_excel", "ok", "headers.xlsx", 0, <<>>)
  /\ dialog = NoDialog
  /\ chart = NoChart
  /\ result = NoResult
  /\ raised = ""
  /\ steps = Min2(MaxSteps, 1)
  /\ rc = RcIdle

SpecHeaders == InitHeaders /\ [][Next]_vars

\* ==================================================================== claims
\* A handler was called in this step.
Called == steps' = steps + 1

OpenedOk == Called /\ last'.act = "open_excel" /\ last'.a = "ok"

\* ------------------------------------------------------------------------ C1
ColmapMatchesDataset ==
  variant = "second" =>
    /\ ~df.held => colmap = EmptyMap
    /\ df.held =>
         /\ DOMAIN colmap = Range(want_keys)
         /\ \A k \in Range(want_keys) : colmap[k] = ResolveOne(df.columns, k)

OnlyOpenChangesDataset ==
  /\ (df' # df \/ colmap' # colmap) => OpenedOk
  /\ (OpenedOk /\ variant = "second") =>
       /\ \E i \in 1..Len(Files) : Files[i].path = last'.b /\ df' = Files[i].frame
       /\ colmap' = resolve_columns(df'.columns, want_keys)

\* C1: in the second program the held column map is always the map
\* resolve_columns builds from the held dataset and the 13 expected names (empty
\* while no dataset is held); every successful open rebuilds it, and no other
\* handler call changes the dataset or the map.
C1_ColmapIsResolvedFromDataset ==
  /\ []ColmapMatchesDataset
  /\ [][OnlyOpenChangesDataset]_vars

\* A second successful open, of a table whose columns resolve otherwise than
\* those of the table before.
C1_Witness ==
  /\ variant = "second"
  /\ last.act = "open_excel" /\ last.a = "ok"
  /\ df = PartialFrame
  /\ Len(SelectSeq(appended, LAMBDA x : x = FileLoadedLine)) = 2
  /\ IsNull(colmap[Key(N_TotalPrice)])
  /\ colmap[Key(N_Region)] = Str(N_Region)

\* ------------------------------------------------------------------------ C2
OpenNotDone == Called /\ last'.act = "open_excel" /\ last'.a \in {"cancel", "fail"}

FailedOpenKeepsState ==
  OpenNotDone =>
    /\ df' = df
    /\ loaded_path' = loaded_path
    /\ colmap' = colmap
    /\ col_box' = col_box
    /\ pie_col' = pie_col
    /\ line_col' = line_col
    /\ btn_preview' = btn_preview
    /\ preview' = preview
    /\ last'.a = "fail" => dialog'.icon = "critical"
    /\ last'.a = "cancel" => dialog' = NoDialog

\* C2: in both programs an open whose read fails, or whose dialog is cancelled,
\* leaves the dataset, the loaded path, the column map, the items of the column
\* selectors and the log as they were; a read failure shows an error dialog.
C2_FailedOpenKeepsState == [][FailedOpenKeepsState]_vars

\* A read failure after a table was loaded and a line was logged.
C2_Witness ==
  /\ last.act = "open_excel" /\ last.a = "fail"
  /\ dialog.icon = "critical"
  /\ df = SalesFrame
  /\ variant = "second"
  /\ colmap # EmptyMap
  /\ Len(preview) >= 3

\* ------------------------------------------------------------------------ C3
\* The lines appended since the list was last cleared (never, in the second
\* program), the newest LogCap of them.
NewestLines ==
  SubSeq(appended, Max2(cleared, Len(appended) - LogCap(variant)) + 1, Len(appended))

\* C3: the log never holds more than its cap (60 lines in the basic program,
\* 120 in the second) and holds exactly the most recently appended lines in
\* the order they were appended: all of them since the list was last emptied
\* (open_excel of the basic program empties it; nothing does in the second)
\* up to the cap, so an append past the cap evicts the oldest line only.
C3_LogHoldsNewestLines ==
  /\ Len(preview) <= LogCap(variant)
  /\ preview = NewestLines

\* The second program's log is full and its two oldest lines, those of __init__
\* and of open_excel, were evicted by the lines of a SUM.
C3_Witness ==
  /\ variant = "second"
  /\ Len(preview) = LogCapSecond
  /\ Len(appended) = LogCapSecond + 2
  /\ preview[1] = ColumnsLine(SalesFrame)
  /\ preview[LogCapSecond - 1].fmt = "[SUM] TotalPrice by Salesperson:"

\* ------------------------------------------------------------------------ C4
\* w is a key as _norm returns it.
IsNormalized(w) == _norm(Str(w)) = w

SpecExampleColumns == <<Str(<<"R", "e", "g", "i", "o", "n">>), Str(<<"t", "o", "t", "a", "l", "_", "p", "r", "i", "c", "e">>), Str(<<"Q", "t", "y">>)>>

SpecExampleMap ==
  [k \in {<<"r", "e", "g", "i", "o", "n">>, <<"t", "o", "t", "a", "l", "p", "r", "i", "c", "e">>} |->
     IF k = <<"r", "e", "g", "i", "o", "n">> THEN Str(<<"R", "e", "g", "i", "o", "n">>) ELSE Str(<<"t", "o", "t", "a", "l", "_", "p", "r", "i", "c", "e">>)]

\* The last header that normalizes to k.
LastWithKey(columns, k) ==
  columns[CHOOSE i \in 1..Len(columns) :
            /\ _norm(columns[i]) = k
            /\ \A j \in (i + 1)..Len(columns) : _norm(columns[j]) # k]

\* C4 as claimed: whatever desired names are passed, a name whose normalized key
\* is that of some column is mapped, under that key, to a column with that key;
\* and headers ["Region", "total_price", "Qty"] with desired ["Region",
\* "TotalPrice"] give {region: "Region", totalprice: "total_price"}.
C4_AsClaimed ==
  rc.done =>
    /\ \A i \in 1..Len(rc.want) :
         LET k == _norm(Str(rc.want[i]))
         IN (\E c \in Range(rc.columns) : _norm(c) = k) =>
              /\ k \in DOMAIN rc.out
              /\ rc.out[k] \in Range(rc.columns)
              /\ _norm(rc.out[k]) = k
    /\ (rc.columns = SpecExampleColumns /\ rc.want = <<<<"R", "e", "g", "i", "o", "n">>, <<"T", "o", "t", "a", "l", "P", "r", "i", "c", "e">>>>)
         => rc.out = SpecExampleMap

\* C4, amended: resolve_columns does not normalize the desired names, its
\* callers do.  For every desired key passed in normalized form: if some column
\* normalizes to it, the key is mapped to the last such column, whichever other
\* headers are substring candidates; and headers ["Region", "total_price",
\* "Qty"] with desired [_norm("Region"), _norm("TotalPrice")] give
\* {region: "Region", totalprice: "total_price"}.
C4_ExactMatchWins ==
  rc.done =>
    /\ \A i \in 1..Len(rc.want) :
         LET w == rc.want[i]
         IN (IsNormalized(w) /\ \E c \in Range(rc.columns) : _norm(c) = w) =>
              /\ w \in DOMAIN rc.out
              /\ rc.out[w] = LastWithKey(rc.columns, w)
    /\ (rc.columns = SpecExampleColumns /\ rc.want = <<<<"r", "e", "g", "i", "o", "n">>, <<"t", "o", "t", "a", "l", "p", "r", "i", "c", "e">>>>)
         => rc.out = SpecExampleMap

\* "region" is asked for where "Regional", an earlier header, is a substring
\* candidate and "Region" the exact match.
C4_Witness ==
  /\ rc.done
  /\ rc.columns = <<Str(<<"R", "e", "g", "i", "o", "n", "a", "l">>), Str(<<"R", "e", "g", "i", "o", "n">>)>>
  /\ rc.want = <<<<"r", "e", "g", "i", "o", "n">>>>
  /\ rc.out[<<"r", "e", "g", "i", "o", "n">>] = Str(<<"R", "e", "g", "i", "o", "n">>)

\* ------------------------------------------------------------------------ C5
\* C5 as claimed: for every list of desired names, normalized or not, the keys
\* of the returned map are the normalized forms of the entries of the list.
C5_AsClaimed ==
  rc.done =>
    /\ \A k \in DOMAIN rc.out : \E i \in 1..Len(rc.want) : k = _norm(Str(rc.want[i]))
    /\ \A i \in 1..Len(rc.want) : _norm(Str(rc.want[i])) \in DOMAIN rc.out

\* C5, amended: the keys of the returned map are the entries of the list as they
\* were passed, each entry a key; they are the normalized forms of the entries
\* when the caller passes normalized entries, as open_excel does.
C5_KeysAreTheEntriesPassed ==
  rc.done =>
    /\ DOMAIN rc.out = Range(rc.want)
    /\ (\A i \in 1..Len(rc.want) : IsNormalized(rc.want[i])) =>
         DOMAIN rc.out = {_norm(Str(rc.want[i])) : i \in 1..Len(rc.want)}

\* A list of normalized entries, one resolved and one not.
C5_Witness ==
  /\ rc.done
  /\ rc.want = <<<<"r", "e", "t", "u", "r", "n", "e", "d">>, <<"r", "e", "g", "i", "o", "n">>>>
  /\ rc.columns = <<Str(<<"R", "e", "g", "i", "o", "n">>)>>
  /\ IsNull(rc.out[<<"r", "e", "t", "u", "r", "n", "e", "d">>])
  /\ rc.out[<<"r", "e", "g", "i", "o", "n">>] = Str(<<"R", "e", "g", "i", "o", "n">>)

\* ------------------------------------------------------------------------ C6
\* No header of the dataset matches key k: none normalizes to it, contains it
\* or is contained in it.
NoHeaderMatches(k) ==
  \A c \in Range(df.columns) :
    /\ _norm(c) # k
    /\ ~IsSubstring(k, _norm(c))
    /\ ~IsSubstring(_norm(c), k)

AbsentWhenNoHeaderMatches ==
  (variant = "second" /\ df.held) =>
    \A k \in Range(want_keys) : NoHeaderMatches(k) => IsNull(colmap[k])

Absent(name) == IsNull(MapGet(colmap, Key(name)))

\* The handler call of this step needs a logical name that is mapped to absent.
NeedsAbsentName ==
  /\ Called
  /\ df.held
  /\ \/ /\ last'.act = "run_metrics"
        /\ Absent(MetricGroupName(last'.b)) \/ Absent(MetricValueName(last'.b))
     \/ /\ last'.act = "draw_chart"
        /\ last'.pair # 0
        /\ Absent(AllowedPairs[last'.pair][1]) \/ Absent(AllowedPairs[last'.pair][2])

Refuses ==
  /\ dialog' = Box("warning", "Missing columns")
  /\ result' = NoResult
  /\ chart' = NoChart
  /\ raised' = ""
  /\ preview' = preview
  /\ appended' = appended
  /\ df' = df
  /\ colmap' = colmap

\* C6: a desired name that no header matches is mapped to absent, and from then
\* on every run_metrics (either pair, any mode) and every bar chart that needs
\* that name shows the missing-column warning and nothing else: no aggregate,
\* no chart, no log line, the dataset and the column map as they were.
C6_AbsentColumnRefused ==
  /\ []AbsentWhenNoHeaderMatches
  /\ [][NeedsAbsentName => Refuses]_vars

\* A bar chart of Region against Quantity was asked for on a table that has a
\* Region column and nothing like Quantity.
C6_Witness ==
  /\ df = PartialFrame
  /\ last.act = "draw_chart"
  /\ last.pair = 1
  /\ ~Absent(N_Region)
  /\ Absent(N_Quantity)
  /\ dialog = Box("warning", "Missing columns")

\* ------------------------------------------------------------------------ C7
\* The cells of the value column of the last run_metrics, for the group label.
MetricCells(label) ==
  GroupCells(Column(df, ColIndex(df, colmap[Key(MetricGroupName(last.b))])),
             Column(df, ColIndex(df, colmap[Key(MetricValueName(last.b))])),
             label)

\* C7 as claimed: for both metric pairs of SUM, a group whose value entries are
\* all null gets a null sum, never zero, and a group with a non-null number
\* gets the sum of its non-null values.
C7_AsClaimed ==
  (last.act = "run_metrics" /\ result.kind = "sum") =>
    \A i \in 1..Len(result.data) :
      LET cells == MetricCells(result.data[i].label)
      IN /\ CountNonNull(cells) = 0 => IsNull(result.data[i].value)
         /\ (CountNonNull(cells) > 0 /\ IsNumericDtype(cells)) =>
              result.data[i].value = Num(SumNums(cells))

\* ------------------------------------------------------------------------ C8
\* C8 as claimed: no handler lets an exception escape; a failure inside a
\* handler ends as an error dialog and a log line.
C8_AsClaimed ==
  /\ raised = ""
  /\ (dialog.icon = "critical" /\ last.act # "open_excel") =>
       (preview # <<>> /\ preview[Len(preview)].fmt = "Plot error: {e}")

\* ------------------------------------------------------------------------ C9
IsBarChart == chart.kind \in {"bar", "barh"}

\* The column whose values rank the bars of the last bar chart.
RankedColumn ==
  IF variant = "second"
  THEN Column(df, ColIndex(df, colmap[Key(AllowedPairs[last.pair][2])]))
  ELSE Column(df, ColIndex(df, Str(Strip(last.sel))))

\* Bars in reading order (top to bottom, left to right) never rise; bars
\* without a value come last.
Descending(rows) ==
  \A i \in 1..(Len(rows) - 1) : ValueGE(rows[i].value, rows[i + 1].value)

\* C9 as claimed: at most 30 bars when ranked by number; when ranked by
\* frequency at most 20 in the basic program and 10 in the second.
C9_AsClaimed ==
  IsBarChart =>
    /\ Len(chart.data) <= (IF IsNumericDtype(RankedColumn) THEN BarTopNumeric
                           ELSE IF variant = "basic" THEN BarTopCategoryBasic
                           ELSE PieTopCategoryBasic)
    /\ Descending(chart.data)

\* C9, amended: every bar chart plots at most the configured N groups, sorted
\* descending by the ranked value (groups without a value last): in the basic
\* program at most 30 for a numeric column and at most 20 for the frequencies of
\* a text column; in the second program at most 30 for each of the four allowed
\* pairs, whether Y is numeric (sums) or not (counts).
C9_BarChartTopN ==
  IsBarChart =>
    /\ Len(chart.data) <= (IF variant = "second" THEN BarTopSecond
                           ELSE IF IsNumericDtype(RankedColumn) THEN BarTopNumeric
                           ELSE BarTopCategoryBasic)
    /\ Descending(chart.data)

\* The second program counted a text column for more regions than it plots.
C9_Witness ==
  /\ variant = "second"
  /\ df = WideFrame
  /\ chart.kind = "bar"
  /\ last.pair = 2
  /\ ~IsNumericDtype(RankedColumn)
  /\ Len(chart.data) = BarTopSecond
  /\ Len(df.rows) > BarTopSecond

\* ----------------------------------------------------------------------- C10
IsBinnedPie == variant = "basic" /\ chart.kind = "pie" /\ chart.edges # <<>>

\* The non-null numbers of the column the last run_viz read.
PieValues ==
  LET cells == SelectSeq(Column(df, ColIndex(df, Str(Strip(last.sel)))), IsNum)
  IN [i \in 1..Len(cells) |-> cells[i].v]

\* Value v lies in range i of the chart: above its lower edge, up to its upper.
InRange(v, i) ==
  /\ chart.edges[i] < CutScale(PieBins) * v
  /\ CutScale(PieBins) * v <= chart.edges[i + 1]

RangeCount(i) == Cardinality({j \in 1..Len(PieValues) : InRange(PieValues[j], i)})

OneRangePerValue ==
  \A j \in 1..Len(PieValues) :
    Cardinality({i \in 1..PieBins : InRange(PieValues[j], i)}) = 1

\* C10 as claimed: 5 ranges of equal width from the minimum to the maximum,
\* every value in exactly one, and 5 slices.
C10_AsClaimed ==
  IsBinnedPie =>
    /\ Len(chart.edges) = PieBins + 1
    /\ chart.edges[1] = CutScale(PieBins) * SeqMin(PieValues)
    /\ chart.edges[PieBins + 1] = CutScale(PieBins) * SeqMax(PieValues)
    /\ \A i \in 1..PieBins :
         chart.edges[i + 1] - chart.edges[i] = chart.edges[2] - chart.edges[1]
    /\ OneRangePerValue
    /\ Len(chart.data) = PieBins

\* C10, amended: the pie chart over a numeric column puts its non-null values
\* in 5 contiguous ranges, each open below and closed above, every value in
\* exactly one.  When the values differ, the ranges end at the maximum, the
\* upper four have one fifth of (maximum - minimum) as their width, and the
\* lowest starts 0.1% of (maximum - minimum) below the minimum; when all values
\* are equal the five ranges have equal width around the value.  The chart has
\* one slice per range that holds a value, with the number of values in it: at
\* least 1 slice and at most 5, fewer than 5 when some range holds no value.
C10_PieRanges ==
  IsBinnedPie =>
    LET mn == SeqMin(PieValues)
        mx == SeqMax(PieValues)
        e == chart.edges
    IN /\ Len(e) = PieBins + 1
       /\ \A i \in 1..PieBins : e[i] < e[i + 1]
       /\ mn < mx =>
            /\ e[PieBins + 1] = CutScale(PieBins) * mx
            /\ \A i \in 2..PieBins : e[i + 1] - e[i] = 1000 * (mx - mn)
            /\ e[2] - e[1] = 1000 * (mx - mn) + PieBins * (mx - mn)
       /\ mn = mx =>
            \A i \in 1..PieBins : e[i + 1] - e[i] = e[2] - e[1]
       /\ OneRangePerValue
       /\ Len(chart.data) >= 1 /\ Len(chart.data) <= PieBins
       /\ \A i \in 1..PieBins :
            /\ RangeCount(i) > 0 =>
                 Len(SelectSeq(chart.data,
                               LAMBDA x : x.label.v = i /\ x.value = Num(RangeCount(i)))) = 1
            /\ RangeCount(i) = 0 =>
                 \A k \in 1..Len(chart.data) : chart.data[k].label.v # i

\* Quantities 5, 2 and 10: three ranges hold a value, two hold none.
C10_Witness ==
  /\ IsBinnedPie
  /\ df = SalesFrame
  /\ PieValues = <<5, 2, 10>>
  /\ Len(chart.data) = 3
  /\ RangeCount(3) = 0

\* ----------------------------------------------------------------------- C11
\* str.isupper() of one character: a capital that has a lower-case form, or
\* one that has none.
UpperCaseLetter(c) == IsUpper(c) \/ c = "U+2102"

NormIsTotalAndIdempotent ==
  /\ rc.once \in Seq(Range(Chars))
  /\ \A i \in 1..Len(rc.once) : rc.once[i] # "_" /\ ~IsSpace(rc.once[i])
  /\ rc.twice = rc.once

\* C11 as claimed: for every label s, _norm(s) is defined, holds no upper-case
\* letter, no underscore and no white space, and _norm(_norm(s)) = _norm(s).
C11_AsClaimed ==
  rc.done =>
    /\ NormIsTotalAndIdempotent
    /\ \A i \in 1..Len(rc.once) : ~UpperCaseLetter(rc.once[i])

\* C11, amended: for every label s, _norm(s) is defined, holds no underscore,
\* no white space and no upper-case letter that has a lower-case form (every
\* character of it is its own lower-case form; an upper-case letter without
\* one is kept), and _norm(_norm(s)) = _norm(s).
C11_NormIsTotalAndIdempotent ==
  rc.done =>
    /\ NormIsTotalAndIdempotent
    /\ \A i \in 1..Len(rc.once) :
         ~IsUpper(rc.once[i]) /\ LowerChar(rc.once[i]) = rc.once[i]

\* "A_ " became "a": the capital is lowered, the underscore and the blank are gone.
C11_Witness ==
  /\ rc.done
  /\ rc.s = Str(<<"A", "_", " ">>)
  /\ rc.once = <<"a">>
  /\ rc.twice = <<"a">>

\* ----------------------------------------------------------------------- C12
\* The handler call of this step finds no dataset held.
NoDatasetCall ==
  /\ Called
  /\ ~df.held
  /\ last'.act \in {"run_viz", "run_metrics", "draw_chart", "preview_columns"}

\* The call computed and drew nothing, no library call failed in it, and the
\* dataset, the loaded path and the column map are as they were.
DoesNothing ==
  /\ result' = NoResult
  /\ chart' = NoChart
  /\ raised' = ""
  /\ dialog'.icon # "critical"
  /\ df' = df
  /\ loaded_path' = loaded_path
  /\ colmap' = colmap

\* C12: while no dataset has been loaded (also after cancelled or failed
\* opens), run_viz of the basic program and run_metrics, draw_chart and
\* preview_columns of the second call no table or plotting library, compute
\* no result, draw no chart and leave the dataset, the loaded path and the
\* column map unchanged.
C12_NoDatasetNoWork == [][NoDatasetCall => DoesNothing]_vars

\* An aggregate was asked for with no dataset, after an earlier call that left
\* none: the "No data" notice and nothing else.
C12_Witness ==
  /\ ~df.held
  /\ loaded_path = NoPath
  /\ steps >= 2
  /\ last.act = "run_metrics"
  /\ dialog = Box("information", "No data")
  /\ result = NoResult
  /\ chart = NoChart

\* ----------------------------------------------------------------------- C13
\* The entry chosen for the last call, read back as the handler reads it
\* (currentText().strip()), is a header of the dataset.
ChosenIsColumn == Str(Strip(last.sel)) \in Range(df.columns)

\* C13 as claimed: after a successful load every entry the program offers in
\* a column selector is accepted by the handler that reads it: in the basic
\* program run_viz does not stop with the "Invalid Column" warning, in the
\* second the pie or line entry names a column of the dataset and draw_chart
\* does not end in a "Plot Error".
C13_AsClaimed ==
  /\ (df.held /\ last.act = "run_viz" /\ last.sel \in Range(col_box)) =>
       dialog # Box("warning", "Invalid Column")
  /\ (/\ df.held
      /\ last.act = "draw_chart"
      /\ \/ last.a = "Pie Chart (percent)" /\ last.sel \in Range(pie_col)
         \/ last.a = "Line Chart (single numeric column)" /\ last.sel \in Range(line_col)) =>
       /\ ChosenIsColumn
       /\ dialog # Box("critical", "Plot Error")

=============================================================================
